---- MODULE Spec2Model ----
(***************************************************************************)
(* Ambulance multi-flow dispatch (src/app.py): the Streamlit session, the  *)
(* fleet handlers, incident generation, network preparation and the       *)
(* optimisation round resolver_optimizacion with its path reconstruction. *)
(*                                                                         *)
(* Numbers.  The program computes with floats; the model keeps exact      *)
(* integers: edge lengths are kept in hectometres (the code's Distancia   *)
(* in km is that number / 10), speeds and capacities are km/h, travel     *)
(* times are fractions num / den of minutes, the relaxation factor is in  *)
(* tenths, and objective values are compared after multiplying both      *)
(* sides by the same positive scale.  The class names are written         *)
(* without accents ("Critica" for 'Crítica').                             *)
(*                                                                         *)
(* None is the empty sequence and a present value v is <<v>>.             *)
(***************************************************************************)
EXTENDS Integers, Sequences, FiniteSets, TLC

\* ------------------------------------------------------------------------
\* Configuration (src/app.py 27-37)
\* ------------------------------------------------------------------------
COEF_PERSONAL == 10
COEF_EQUIPAMIENTO == 5
COEF_INSUMOS == 3

\* BETA = 0.5 and GAMMA = 1.0, both kept in halves.
BETA_HALVES == 1
GAMMA_HALVES == 2

M == 10000

None == <<>>
Some(v) == <<v>>

\* ------------------------------------------------------------------------
\* class Ambulancia
\* ------------------------------------------------------------------------
_calcular_costo_operativo(personal, equipamiento, insumos) ==
    personal * COEF_PERSONAL + equipamiento * COEF_EQUIPAMIENTO
        + insumos * COEF_INSUMOS

_asignar_tipo_ambulancia_gt(costo_operativo) ==
    IF costo_operativo > 200 THEN "Critica"
    ELSE IF costo_operativo > 100 THEN "Media"
    ELSE IF costo_operativo > 50 THEN "Leve"
    ELSE "Desconocido"

_asignar_tipo_ambulancia(costo_operativo) ==
    IF costo_operativo >= 200 THEN "Critica"
    ELSE IF costo_operativo >= 100 THEN "Media"
    ELSE IF costo_operativo >= 50 THEN "Leve"
    ELSE "Desconocido"

Ambulancia(id, personal, equipamiento, insumos) ==
    [id |-> id, personal |-> personal, equipamiento |-> equipamiento,
     insumos |-> insumos,
     costo_operativo |-> _calcular_costo_operativo(personal, equipamiento, insumos),
     tipo |-> _asignar_tipo_ambulancia(
                  _calcular_costo_operativo(personal, equipamiento, insumos))]

\* ------------------------------------------------------------------------
\* es_compatible: dict.get(key, 0) on both sides, then >=
\* ------------------------------------------------------------------------
niveles_ambulancia(tipo) ==
    CASE tipo = "Critica" -> 3
      [] tipo = "Media" -> 2
      [] tipo = "Leve" -> 1
      [] OTHER -> 0

niveles_emergencia(tipo) ==
    CASE tipo = "Critica" -> 3
      [] tipo = "Media" -> 2
      [] tipo = "Leve" -> 1
      [] OTHER -> 0

es_compatible_le(ambulancia, tipo_emergencia) ==
    niveles_ambulancia(ambulancia.tipo) <= niveles_emergencia(tipo_emergencia)

es_compatible(ambulancia, tipo_emergencia) ==
    niveles_ambulancia(ambulancia.tipo) >= niveles_emergencia(tipo_emergencia)

\* prioridades = {'Critica': 3, 'Media': 2, 'Leve': 1}, indexed with [] in
\* the code: only the three severities are ever looked up.
prioridades(tipo) ==
    CASE tipo = "Critica" -> 3
      [] tipo = "Media" -> 2
      [] tipo = "Leve" -> 1

FLUJOS == <<"Critica", "Media", "Leve">>

\* ------------------------------------------------------------------------
\* Default fleet of the session (src/app.py 540-558)
\* ------------------------------------------------------------------------
DefaultFleet ==
    << Ambulancia("Amb_001", 3, 5, 10),
       Ambulancia("Amb_002", 5, 8, 15),
       Ambulancia("Amb_003", 7, 12, 20),
       Ambulancia("Amb_004", 10, 15, 25),
       Ambulancia("Amb_005", 2, 3, 5),
       Ambulancia("Amb_006", 4, 6, 12),
       Ambulancia("Amb_007", 6, 10, 18),
       Ambulancia("Amb_008", 8, 14, 22),
       Ambulancia("Amb_009", 3, 4, 8),
       Ambulancia("Amb_010", 12, 18, 30),
       Ambulancia("Amb_011", 5, 7, 13),
       Ambulancia("Amb_012", 2, 5, 7),
       Ambulancia("Amb_013", 7, 9, 16),
       Ambulancia("Amb_014", 9, 13, 24),
       Ambulancia("Amb_015", 1, 2, 4) >>

\* ------------------------------------------------------------------------
\* Helpers on sequences and sets
\* ------------------------------------------------------------------------
Range(s) == {s[i] : i \in DOMAIN s}

RECURSIVE SetToSeqs(_)
\* every ordering of a finite set (random.sample / random.shuffle outcomes)
SetToSeqs(S) ==
    IF S = {} THEN {<<>>}
    ELSE UNION {{<<e>> \o t : t \in SetToSeqs(S \ {e})} : e \in S}

RECURSIVE SumOver(_, _)
SumOver(S, f) ==
    IF S = {} THEN 0
    ELSE LET e == CHOOSE e \in S : TRUE IN f[e] + SumOver(S \ {e}, f)

\* ------------------------------------------------------------------------
\* The street network: a directed multigraph, as descargar_red returns it.
\* nodos is list(G.nodes()), arcos is list(G.edges(keys=True)) in the
\* graph's iteration order, length is the stored edge length in hectometres.
\* The download is an input of the program; these are the networks the
\* model feeds it.
\* ------------------------------------------------------------------------
\* two routes to every node, all lengths positive
RedTriangulo ==
    [nodos |-> <<1, 2, 3>>,
     arcos |-> << <<1, 2, 0>>, <<1, 3, 0>>, <<2, 1, 0>>,
                  <<2, 3, 0>>, <<3, 1, 0>>, <<3, 2, 0>> >>,
     length |-> (<<1, 2, 0>> :> 1 @@ <<1, 3, 0>> :> 3 @@ <<2, 1, 0>> :> 1
                 @@ <<2, 3, 0>> :> 1 @@ <<3, 1, 0>> :> 3 @@ <<3, 2, 0>> :> 1)]

\* a zero-length street pair 1 <-> 3 (coincident nodes) beside 1 <-> 2
RedLazoCero ==
    [nodos |-> <<1, 2, 3>>,
     arcos |-> << <<1, 2, 0>>, <<1, 3, 0>>, <<2, 1, 0>>, <<3, 1, 0>> >>,
     length |-> (<<1, 2, 0>> :> 1 @@ <<1, 3, 0>> :> 0
                 @@ <<2, 1, 0>> :> 1 @@ <<3, 1, 0>> :> 0)]

\* parallel edges and a self-loop; node 3 is joined to the rest by one
\* street each way
RedParalela ==
    [nodos |-> <<1, 2, 3>>,
     arcos |-> << <<1, 2, 0>>, <<1, 2, 1>>, <<2, 1, 0>>,
                  <<2, 2, 0>>, <<2, 3, 0>>, <<3, 2, 0>> >>,
     length |-> (<<1, 2, 0>> :> 1 @@ <<1, 2, 1>> :> 2 @@ <<2, 1, 0>> :> 1
                 @@ <<2, 2, 0>> :> 1 @@ <<2, 3, 0>> :> 1 @@ <<3, 2, 0>> :> 1)]

\* a one-way chain: no two nodes are mutually reachable
RedCadena ==
    [nodos |-> <<1, 2, 3>>,
     arcos |-> << <<1, 2, 0>>, <<2, 3, 0>> >>,
     length |-> (<<1, 2, 0>> :> 1 @@ <<2, 3, 0>> :> 1)]

Redes == {RedTriangulo, RedLazoCero, RedParalela, RedCadena}

\* ------------------------------------------------------------------------
\* descargar_red: the graph as downloaded carries no Capacidad_C and no
\* Distancia attribute yet (functions with an empty domain).
\* ------------------------------------------------------------------------
descargar_red(red) ==
    [nodos |-> red.nodos, arcos |-> red.arcos, length |-> red.length,
     Capacidad_C |-> [a \in {} |-> 0], Distancia |-> [a \in {} |-> 0]]

\* ------------------------------------------------------------------------
\* Session defaults of the sidebar parameters (src/app.py 573-583)
\* ------------------------------------------------------------------------
R_MIN == 20
R_MAX == 50
C_MIN == 50
C_MAX == 100

\* random.uniform(a, b) returns a + (b - a) * u for a random u in [0, 1].
\* The model draws u from the two ends, once for all the capacities of a
\* call and once for its three required speeds (u is 0 or 1 here, so the
\* product is exact).
Cuantiles == {0, 1}

uniform(a, b, u) == a + (b - a) * u

\* ------------------------------------------------------------------------
\* asignar_capacidades_velocidades: every edge gets a sampled capacity and
\* its Distancia (length / 1000 km, kept in hectometres); the three required
\* speeds are sampled from the three thirds of [R_MIN, R_MAX].
\* The result is the set of (graph, R_k) outcomes of the random draws.
\* The nominal tiempo_min of an edge is written by the code and read by
\* nothing; it is left out.
\* ------------------------------------------------------------------------
muestra_invertida(G, c_min, c_max, r_min, r_max, uc, u_leve, u_media, u_critica) ==
    LET rango == r_max - r_min
        tercio == rango \div 3
    IN  [G |-> [G EXCEPT
                  !.Capacidad_C = [a \in Range(G.arcos) |-> uniform(c_min, c_max, uc)],
                  !.Distancia = [a \in Range(G.arcos) |-> G.length[a]]],
         R_k |-> [Leve |-> uniform(r_min + 2 * tercio, r_max, u_leve),
                  Media |-> uniform(r_min + tercio, r_min + 2 * tercio, u_media),
                  Critica |-> uniform(r_min, r_min + tercio, u_critica)]]

\* the outcome of one call for given draws: uc for the capacities, and one
\* draw for each of the three speeds (tercio is rango / 3: the ranges the
\* model passes in have a width that is a multiple of 3)
muestra(G, c_min, c_max, r_min, r_max, uc, u_leve, u_media, u_critica) ==
    LET rango == r_max - r_min
        tercio == rango \div 3
    IN  [G |-> [G EXCEPT
                  !.Capacidad_C = [a \in Range(G.arcos) |-> uniform(c_min, c_max, uc)],
                  !.Distancia = [a \in Range(G.arcos) |-> G.length[a]]],
         R_k |-> [Leve |-> uniform(r_min, r_min + tercio, u_leve),
                  Media |-> uniform(r_min + tercio, r_min + 2 * tercio, u_media),
                  Critica |-> uniform(r_min + 2 * tercio, r_max, u_critica)]]

\* in a session and in a round the three speeds are drawn at the same
\* quantile
asignar_capacidades_velocidades(G, c_min, c_max, r_min, r_max) ==
    {muestra(G, c_min, c_max, r_min, r_max, uc, ur, ur, ur) :
        uc \in Cuantiles, ur \in Cuantiles}

\* R_k[tipo] for the three severities
Vel(R_k, tipo) ==
    CASE tipo = "Critica" -> R_k.Critica
      [] tipo = "Media" -> R_k.Media
      [] tipo = "Leve" -> R_k.Leve

\* ------------------------------------------------------------------------
\* generar_origen_destinos
\* ------------------------------------------------------------------------
Succ(G, n) == {a[2] : a \in {b \in Range(G.arcos) : b[1] = n}}

RECURSIVE ReachFrom(_, _)
\* the nodes reachable from the set S by zero or more edges
ReachFrom(G, S) ==
    LET T == S \cup UNION {Succ(G, n) : n \in S}
    IN  IF T = S THEN S ELSE ReachFrom(G, T)

\* nx.strongly_connected_components
SCC(G, n) == {m \in ReachFrom(G, {n}) : n \in ReachFrom(G, {m})}

strongly_connected_components(G) == {SCC(G, n) : n \in Range(G.nodos)}

\* max(componentes, key=len): a component of maximal size (which one of
\* several of the same size depends on the library's iteration order)
componentes_mas_grandes(G) ==
    {c \in strongly_connected_components(G) :
        \A d \in strongly_connected_components(G) :
            Cardinality(d) <= Cardinality(c)}

\* degree of n in the subgraph induced by the component (in + out, a
\* self-loop counts twice)
degree(G, comp, n) ==
    Cardinality({i \in DOMAIN G.arcos :
        G.arcos[i][1] = n /\ G.arcos[i][2] \in comp})
    + Cardinality({i \in DOMAIN G.arcos :
        G.arcos[i][2] = n /\ G.arcos[i][1] \in comp})

candidatos_con_origen(G, comp, ORIGEN) ==
    {n \in (ReachFrom([G EXCEPT !.arcos =
                          SelectSeq(G.arcos,
                              LAMBDA a : a[1] \in comp /\ a[2] \in comp)],
                      {ORIGEN}) \cap comp) :
        degree(G, comp, n) > 0}

\* nx.descendants(componente_principal, ORIGEN) plus the filter of the code
candidatos(G, comp, ORIGEN) ==
    {n \in (ReachFrom([G EXCEPT !.arcos =
                          SelectSeq(G.arcos,
                              LAMBDA a : a[1] \in comp /\ a[2] \in comp)],
                      {ORIGEN}) \cap comp) :
        n # ORIGEN /\ degree(G, comp, n) > 0}

\* (FLUJOS * (n // 3 + 1))[:n]
tipos_emergencia(n) == [i \in 1..n |-> FLUJOS[((i - 1) % Len(FLUJOS)) + 1]]

\* random.shuffle: every arrangement of the same multiset
Shuffles(s) ==
    {[i \in DOMAIN s |-> s[p[i]]] : p \in SetToSeqs(DOMAIN s)}

\* nx.betweenness_centrality(componente_principal): for every node v the
\* sum over ordered pairs (s, t), s # v # t, of the share of the shortest
\* s-t paths that pass through v.  Paths are node paths (parallel edges are
\* one step); the normalisation is the same for every node and is left
\* out.  The shares are summed over the common denominator ProdSigma.
Adyacente(G, comp, u, v) ==
    u \in comp /\ v \in comp /\ u # v
    /\ \E a \in Range(G.arcos) : a[1] = u /\ a[2] = v

CaminosSimples(G, comp, s, t) ==
    {p \in UNION {SetToSeqs(S) : S \in SUBSET comp} :
        /\ Len(p) >= 2 /\ p[1] = s /\ p[Len(p)] = t
        /\ \A i \in 1..(Len(p) - 1) : Adyacente(G, comp, p[i], p[i + 1])}

CaminosMinimos(G, comp, s, t) ==
    LET C == CaminosSimples(G, comp, s, t)
    IN  {p \in C : \A q \in C : Len(p) <= Len(q)}

ParesConCamino(G, comp) ==
    {st \in comp \X comp :
        st[1] # st[2] /\ CaminosMinimos(G, comp, st[1], st[2]) # {}}

RECURSIVE ProdSigma(_, _, _)
ProdSigma(G, comp, P) ==
    IF P = {} THEN 1
    ELSE LET st == CHOOSE st \in P : TRUE
         IN  Cardinality(CaminosMinimos(G, comp, st[1], st[2]))
                 * ProdSigma(G, comp, P \ {st})

betweenness_centrality(G, comp) ==
    LET P == ParesConCamino(G, comp)
        K == ProdSigma(G, comp, P)
    IN  [v \in comp |->
            SumOver({st \in P : st[1] # v /\ st[2] # v},
                [st \in P |->
                    LET C == CaminosMinimos(G, comp, st[1], st[2])
                    IN  Cardinality({p \in C :
                            \E i \in 2..(Len(p) - 1) : p[i] = v})
                        * (K \div Cardinality(C))])]

\* max(centralidad, key=centralidad.get): a node of maximal centrality
\* (among equals, the first in the component's iteration order, which the
\* library does not fix: any of them)
nodos_mas_centrales(G, comp) ==
    LET centralidad == betweenness_centrality(G, comp)
    IN  {n \in comp : \A m \in comp : centralidad[m] <= centralidad[n]}

\* The outcomes of one call: DESTINOS is the dict in insertion order, a
\* sequence of [nodo, tipo] with pairwise distinct nodes.
generar_origen_destinos(G, num_incidentes) ==
    UNION {UNION {
        LET cand == candidatos(G, comp, ORIGEN)
            n == IF Cardinality(cand) < num_incidentes
                 THEN Cardinality(cand) ELSE num_incidentes
        IN  {[ORIGEN |-> ORIGEN,
              DESTINOS |-> [i \in 1..n |-> [nodo |-> dn[i], tipo |-> tp[i]]]] :
                dn \in UNION {SetToSeqs(D) : D \in {E \in SUBSET cand :
                                                     Cardinality(E) = n}},
                tp \in Shuffles(tipos_emergencia(n))}
        : ORIGEN \in nodos_mas_centrales(G, comp)}
        : comp \in componentes_mas_grandes(G)}

\* ------------------------------------------------------------------------
\* resolver_optimizacion: building the model
\* ------------------------------------------------------------------------
\* incidentes: one record per entry of DESTINOS, in the dict's order
incidentes_de(DESTINOS, R_k) ==
    [i \in DOMAIN DESTINOS |->
        [nodo |-> DESTINOS[i].nodo, tipo |-> DESTINOS[i].tipo,
         prioridad |-> prioridades(DESTINOS[i].tipo),
         velocidad_requerida |-> Vel(R_k, DESTINOS[i].tipo)]]

\* DESTINOS[nodo_dest]
TipoDe(DESTINOS, nodo) ==
    DESTINOS[CHOOSE i \in DOMAIN DESTINOS : DESTINOS[i].nodo = nodo].tipo

\* ambulancias_dict[amb_id] (ids are unique in every fleet the session
\* builds, so the vehicle with that id is the only one)
AmbDe(ambulancias, amb_id) ==
    ambulancias[CHOOSE i \in DOMAIN ambulancias : ambulancias[i].id = amb_id]

\* pares_amb_inc: for amb in ambulancias, for inc in incidentes, the
\* compatible (amb.id, inc.nodo), in that order
pares_amb_inc_de(ambulancias, incidentes) ==
    LET nI == Len(incidentes)
        todos == [k \in 1..(Len(ambulancias) * nI) |->
                    <<((k - 1) \div nI) + 1, ((k - 1) % nI) + 1>>]
        comp == SelectSeq(todos,
                    LAMBDA q : es_compatible(ambulancias[q[1]], incidentes[q[2]].tipo))
    IN  [k \in DOMAIN comp |->
            <<ambulancias[comp[k][1]].id, incidentes[comp[k][2]].nodo>>]

\* Constraint 3 for one pair: flow conservation at every node, for the
\* edge-use set S (x = 1 on S) and the pair's assignment value y
FlujoConservado(G, ORIGEN, nodo_dest, S, y) ==
    \A nodo \in Range(G.nodos) :
        LET flujo_salida == Cardinality({a \in S : a[1] = nodo})
            flujo_entrada == Cardinality({a \in S : a[2] = nodo})
        IN  IF nodo = ORIGEN THEN flujo_salida - flujo_entrada = y
            ELSE IF nodo = nodo_dest THEN flujo_entrada - flujo_salida = y
            ELSE flujo_entrada - flujo_salida = 0

\* total length of an edge set, in hectometres
DistanciaDe(G, S) == SumOver(S, G.Distancia)

\* Constraint 4 and the Big-M constraint for an assigned pair (y = 1):
\* T >= sum(x * Distancia / vel * 60) and T <= M.  Distancia is in
\* hectometres here, so minutes = 6 * hectometres / vel.
TiempoAdmisible(G, S, vel) == 6 * DistanciaDe(G, S) <= M * vel

\* The value of the variable T of a pair is kept as the number T * vel
\* (minutes times km/h), an integer.
\* Constraint 4: T >= sum(x * Distancia / vel * 60)
Restriccion4(G, S, vel, T) == T >= 6 * DistanciaDe(G, S)

BigM_sin_y(vel, T, y) == T <= M * vel

\* Big-M constraint: T <= M * y
BigM(vel, T, y) == T <= M * vel * y

\* T is a continuous variable with lowBound 0; the model lets it take 0,
\* the bound of Constraint 4, and that bound plus whole minutes of slack
Holguras == {0, 1}

TiemposDe(G, S, vel, y) ==
    {T \in {0} \cup {6 * DistanciaDe(G, S) + vel * h : h \in Holguras} :
        Restriccion4(G, S, vel, T) /\ BigM(vel, T, y)}

CapacidadSinLimite(G, usos, factor_relajacion) == TRUE

CapacidadRespetada_div(G, usos, factor_relajacion) ==
    \A a \in Range(G.arcos) :
        factor_relajacion
            * SumOver({i \in DOMAIN usos : a \in usos[i].arcos},
                      [i \in DOMAIN usos |-> usos[i].vel])
            <= G.Capacidad_C[a] * 10

\* Constraint 5 for one edge: the required speeds of the pairs using it
\* against the relaxed capacity (factor in tenths)
CapacidadRespetada(G, usos, factor_relajacion) ==
    \A a \in Range(G.arcos) :
        10 * SumOver({i \in DOMAIN usos : a \in usos[i].arcos},
                     [i \in DOMAIN usos |-> usos[i].vel])
            <= G.Capacidad_C[a] * factor_relajacion

ExclusividadTodas(sol) == TRUE

\* Constraint 2: no ambulance id carries more than one assignment
Exclusividad(sol) ==
    \A i, j \in DOMAIN sol : sol[i].amb = sol[j].amb => i = j

\* ------------------------------------------------------------------------
\* resolver_optimizacion: the solve.  PULP_CBC_CMD is a library; the model
\* takes its contract: status Optimal with some optimal solution of the
\* constraints, or status Infeasible when there is none.
\*
\* A candidate solution names, for every incident i (Constraint 1: exactly
\* one y = 1 among the pairs of the incident), the ambulance whose y is 1,
\* the edge set on which that pair's x is 1, and the incident's required
\* speed, and the value of its T.  Every other pair is taken with y = 0,
\* T = 0 and x = 0: the constraints also let such a pair carry x = 1 around
\* a cycle of zero length, which changes neither the feasibility nor the
\* objective nor anything the extraction reads.
\* ------------------------------------------------------------------------
RutasFactibles(G, ORIGEN, nodo_dest, vel) ==
    {S \in SUBSET Range(G.arcos) :
        FlujoConservado(G, ORIGEN, nodo_dest, S, 1) /\ TiempoAdmisible(G, S, vel)}

RECURSIVE Candidatas(_, _, _, _, _)
Candidatas(G, ORIGEN, incidentes, pares, i) ==
    IF i > Len(incidentes) THEN {<<>>}
    ELSE LET inc == incidentes[i]
             ambs == {q[1] : q \in {r \in Range(pares) : r[2] = inc.nodo}}
             rutas == RutasFactibles(G, ORIGEN, inc.nodo, inc.velocidad_requerida)
         IN  UNION {
                 {<<[amb |-> a, arcos |-> S, vel |-> inc.velocidad_requerida,
                     T |-> T]>> \o resto :
                     a \in ambs,
                     T \in TiemposDe(G, S, inc.velocidad_requerida, 1),
                     resto \in Candidatas(G, ORIGEN, incidentes, pares, i + 1)}
                 : S \in rutas}

Factibles(G, ORIGEN, incidentes, pares, factor_relajacion) ==
    {sol \in Candidatas(G, ORIGEN, incidentes, pares, 1) :
        Exclusividad(sol) /\ CapacidadRespetada(G, sol, factor_relajacion)}

\* the scale that makes every objective term an integer: the least common
\* multiple of the three required speeds
RECURSIVE GCD(_, _)
GCD(a, b) == IF b = 0 THEN a ELSE GCD(b, a % b)

LCM(a, b) == (a * b) \div GCD(a, b)

Escala(R_k) == LCM(LCM(R_k.Leve, R_k.Media), R_k.Critica)

Objetivo_sin_tiempo(G, ambulancias, incidentes, R_k, sol) ==
    SumOver(DOMAIN sol,
        [i \in DOMAIN sol |->
            incidentes[i].prioridad
            * GAMMA_HALVES * AmbDe(ambulancias, sol[i].amb).costo_operativo
                  * DistanciaDe(G, sol[i].arcos) * Escala(R_k)])

\* Costo_Total times 20 * Escala(R_k):
\*   prioridad * GAMMA * costo_operativo * Distancia  (km = hectometres / 10)
\* + prioridad * BETA * T                              (T = sol.T / vel)
Objetivo(G, ambulancias, incidentes, R_k, sol) ==
    SumOver(DOMAIN sol,
        [i \in DOMAIN sol |->
            incidentes[i].prioridad
            * (GAMMA_HALVES * AmbDe(ambulancias, sol[i].amb).costo_operativo
                   * DistanciaDe(G, sol[i].arcos) * Escala(R_k)
               + BETA_HALVES * 10 * sol[i].T * (Escala(R_k) \div sol[i].vel))])

\* the feasible solutions of least objective value
OptimasDe(G, ambulancias, incidentes, R_k, F) ==
    UNION {UNION {
        {sol \in F : Objetivo(G, ambulancias, incidentes, R_k, sol) = minimo}
        : minimo \in {v \in valores : \A w \in valores : v <= w}}
        : valores \in {{Objetivo(G, ambulancias, incidentes, R_k, sol) : sol \in F}}}

Optimas(G, ambulancias, ORIGEN, incidentes, pares, R_k, factor_relajacion) ==
    UNION {OptimasDe(G, ambulancias, incidentes, R_k, F)
           : F \in {Factibles(G, ORIGEN, incidentes, pares, factor_relajacion)}}

\* y[(amb_id, nodo_dest)].varValue and the pair's edge-use set
IndiceInc(DESTINOS, nodo) == CHOOSE i \in DOMAIN DESTINOS : DESTINOS[i].nodo = nodo

y_val(DESTINOS, sol, par) ==
    IF sol[IndiceInc(DESTINOS, par[2])].amb = par[1] THEN 1 ELSE 0

T_val(DESTINOS, sol, par) ==
    IF y_val(DESTINOS, sol, par) = 1
    THEN sol[IndiceInc(DESTINOS, par[2])].T ELSE 0

x_val(DESTINOS, sol, par) ==
    IF y_val(DESTINOS, sol, par) = 1
    THEN sol[IndiceInc(DESTINOS, par[2])].arcos ELSE {}

\* ------------------------------------------------------------------------
\* State: st.session_state, the position of the running optimisation round
\* and what the last handler reported.
\* ------------------------------------------------------------------------
VARIABLES
    ambulancias,          \* st.session_state.ambulancias: list of Ambulancia
    G,                    \* st.session_state.G: None or the graph
    R_k,                  \* st.session_state.R_k: None or the speeds
    FACTOR_RELAJACION,    \* st.session_state.FACTOR_RELAJACION, in tenths
    ORIGEN,               \* st.session_state.ORIGEN: None or the base node
    DESTINOS,             \* st.session_state.DESTINOS: None or the dict
    incidentes_generados, \* st.session_state.incidentes_generados
    resultado,            \* st.session_state.resultado: None or the result
    ronda,                \* the locals of resolver_optimizacion while it runs
    traza,                \* what the last handler reported, when it was Add
                          \* or Run: its message, whether the solver ran and
                          \* the result resolver_optimizacion returned
    llamada,              \* a direct call of a pure function and its value
    previa                \* the inputs and the solver's answer of the call of
                          \* resolver_optimizacion that returned the stored
                          \* result

vars == <<ambulancias, G, R_k, FACTOR_RELAJACION, ORIGEN, DESTINOS,
          incidentes_generados, resultado, ronda, traza, llamada, previa>>

sesion == <<ambulancias, G, R_k, FACTOR_RELAJACION, ORIGEN, DESTINOS,
            incidentes_generados, resultado>>

Reposo == [pc |-> "idle"]

\* resultado is the first component of what resolver_optimizacion returned;
\* muestreo tells whether the handler called asignar_capacidades_velocidades
Traza(handler, error, solver) ==
    [handler |-> handler, error |-> error, solver |-> solver, resultado |-> None,
     muestreo |-> FALSE]

\* the Run handler past its three refusals: it has sampled capacities and
\* speeds when the session held no R_k (if st.session_state.R_k is None)
TrazaRun(error, solver) ==
    [Traza("run", error, solver) EXCEPT !.muestreo = (R_k = None)]

\* the other handlers report nothing the model follows
SinTraza == Traza("otro", "", FALSE)

\* messages of the handlers
ERR_ID_EXISTE == "ID already exists"
ERR_SIN_RED == "Network not loaded"
ERR_SIN_FLOTA == "No ambulances in fleet"
ERR_SIN_INCIDENTES == "No incidents generated"
ERR_SIN_PARES == "No compatible ambulance-incident pairs found"
ERR_INFACTIBLE == "Model status: Infeasible"

\* ------------------------------------------------------------------------
\* Inputs of the session's handlers
\* ------------------------------------------------------------------------
\* the add form: ids typed by the user and (staff, equipment, supplies)
\* within the form's ranges 1..15, 1..20, 1..30
IdsNuevos == {"Amb_001", "Amb_016"}
Formulario == {<<2, 4, 3>>}

\* the removal selectbox: the user of the model removes the four vehicles
\* of class Critica, the cheapest first
OrdenQuitar == <<"Amb_008", "Amb_014", "Amb_004", "Amb_010">>

IdsQuitar(flota) ==
    LET quedan == {i \in DOMAIN OrdenQuitar :
                      \E j \in DOMAIN flota : flota[j].id = OrdenQuitar[i]}
    IN  {OrdenQuitar[i] : i \in {k \in quedan : \A m \in quedan : k <= m}}

\* the network the download returns in a session
RedesSesion == {RedLazoCero}

\* the number input of the incidents tab (1..15): in a session, and for a
\* single round
MaxIncidentes == 2
NumIncidentesSesion == {1}
NumIncidentes == 1..MaxIncidentes

\* the relaxation factor input (1.0 .. 3.0 in steps of 0.1), in tenths
Factores == {10, 20}

\* ------------------------------------------------------------------------
\* Init: the session state initialisation (src/app.py 540-595)
\* ------------------------------------------------------------------------
Init ==
    /\ ambulancias = DefaultFleet
    /\ G = None
    /\ R_k = None
    /\ FACTOR_RELAJACION = 10
    /\ ORIGEN = None
    /\ DESTINOS = None
    /\ incidentes_generados = FALSE
    /\ resultado = None
    /\ ronda = Reposo
    /\ traza = SinTraza
    /\ llamada = None
    /\ previa = None

\* ------------------------------------------------------------------------
\* Sidebar: the relaxation factor input
\* ------------------------------------------------------------------------
SetFactor(f) ==
    /\ ronda.pc = "idle"
    /\ f # FACTOR_RELAJACION
    /\ FACTOR_RELAJACION' = f
    /\ traza' = SinTraza
    /\ UNCHANGED <<ambulancias, G, R_k, ORIGEN, DESTINOS,
                   incidentes_generados, resultado, ronda, llamada, previa>>

\* ------------------------------------------------------------------------
\* Tab 1: add and remove
\* ------------------------------------------------------------------------
AddAmbulance_sin_comprobar(new_id, new_personal, new_equipamiento, new_insumos) ==
    /\ ronda.pc = "idle"
    /\ ambulancias' = Append(ambulancias,
           Ambulancia(new_id, new_personal, new_equipamiento, new_insumos))
    /\ traza' = Traza("add", "", FALSE)
    /\ UNCHANGED <<G, R_k, FACTOR_RELAJACION, ORIGEN, DESTINOS,
                   incidentes_generados, resultado, ronda, llamada, previa>>

AddAmbulance(new_id, new_personal, new_equipamiento, new_insumos) ==
    /\ ronda.pc = "idle"
    /\ IF \E i \in DOMAIN ambulancias : ambulancias[i].id = new_id
       THEN /\ traza' = Traza("add", ERR_ID_EXISTE, FALSE)
            /\ UNCHANGED ambulancias
       ELSE /\ ambulancias' = Append(ambulancias,
                  Ambulancia(new_id, new_personal, new_equipamiento, new_insumos))
            /\ traza' = Traza("add", "", FALSE)
    /\ UNCHANGED <<G, R_k, FACTOR_RELAJACION, ORIGEN, DESTINOS,
                   incidentes_generados, resultado, ronda, llamada, previa>>

RemoveAmbulance(amb_to_remove) ==
    /\ ronda.pc = "idle"
    /\ \E i \in DOMAIN ambulancias : ambulancias[i].id = amb_to_remove
    /\ ambulancias' = SelectSeq(ambulancias, LAMBDA amb : amb.id # amb_to_remove)
    /\ traza' = SinTraza
    /\ UNCHANGED <<G, R_k, FACTOR_RELAJACION, ORIGEN, DESTINOS,
                   incidentes_generados, resultado, ronda, llamada, previa>>

\* ------------------------------------------------------------------------
\* Tab 3, on every run of the script: load the network if it is missing
\* (a failed download leaves G at None)
\* ------------------------------------------------------------------------
LoadNetwork(red) ==
    /\ ronda.pc = "idle"
    /\ G = None
    /\ G' = Some(descargar_red(red))
    /\ traza' = SinTraza
    /\ UNCHANGED <<ambulancias, R_k, FACTOR_RELAJACION, ORIGEN, DESTINOS,
                   incidentes_generados, resultado, ronda, llamada, previa>>

\* ------------------------------------------------------------------------
\* Tab 2: Generate Incidents (loads the network first when it is missing;
\* st.stop() when the download fails)
\* ------------------------------------------------------------------------
GenerateIncidents(num_incidentes) ==
    /\ ronda.pc = "idle"
    /\ \/ /\ G = None
          /\ traza' = SinTraza
          /\ UNCHANGED <<G, ORIGEN, DESTINOS, incidentes_generados>>
       \/ \E g \in (IF G = None THEN {descargar_red(red) : red \in RedesSesion}
                    ELSE {G[1]}) :
          \E od \in generar_origen_destinos(g, num_incidentes) :
            /\ G' = Some(g)
            /\ ORIGEN' = Some(od.ORIGEN)
            /\ DESTINOS' = Some(od.DESTINOS)
            /\ incidentes_generados' = TRUE
            /\ traza' = SinTraza
    /\ UNCHANGED <<ambulancias, R_k, FACTOR_RELAJACION, resultado, ronda, llamada, previa>>

\* ------------------------------------------------------------------------
\* Tab 3: Recalculate Capacities
\* ------------------------------------------------------------------------
RecalculateCapacities ==
    /\ ronda.pc = "idle"
    /\ G # None
    /\ \E r \in asignar_capacidades_velocidades(G[1], C_MIN, C_MAX, R_MIN, R_MAX) :
          /\ G' = Some(r.G)
          /\ R_k' = Some(r.R_k)
    /\ traza' = SinTraza
    /\ UNCHANGED <<ambulancias, FACTOR_RELAJACION, ORIGEN, DESTINOS,
                   incidentes_generados, resultado, ronda, llamada, previa>>

\* ------------------------------------------------------------------------
\* Tab 3: Run Optimization.  The handler up to the end of the solve is one
\* step; the extraction loop of resolver_optimizacion then runs step by
\* step (ExtractNext, ReconstructStep, EmitAssignment) and no other handler
\* runs until it has returned.
\* ------------------------------------------------------------------------
CualquierRespuesta(entrada, sol) == TRUE

\* PULP_CBC_CMD runs the CBC program on the model file: a deterministic
\* program, so the model that the stored result was solved from gets the
\* same answer again
MismaRespuesta(entrada, sol) ==
    (previa # None /\ previa[1].entrada = entrada) => sol = previa[1].sol

SinParesNunca(pares) == FALSE

\* if not pares_amb_inc
SinPares(pares) == pares = <<>>

FallaResolver_borra(error, solver) ==
    /\ traza' = TrazaRun(error, solver)
    /\ resultado' = None
    /\ UNCHANGED ronda

\* return None, error: the handler reports the error and stores nothing
FallaResolver(error, solver) ==
    /\ traza' = TrazaRun(error, solver)
    /\ UNCHANGED <<ronda, resultado>>

\* resolver_optimizacion up to the status check (src/app.py 189-357)
Resolver(g, flota, origen, destinos, rk, factor_relajacion) ==
    LET incidentes == incidentes_de(destinos, rk)
        pares == pares_amb_inc_de(flota, incidentes)
    IN  IF SinPares(pares)
        THEN FallaResolver(ERR_SIN_PARES, FALSE)
        ELSE \E optimas \in {Optimas(g, flota, origen, incidentes, pares, rk,
                                       factor_relajacion)} :
                 IF optimas = {}
                 THEN FallaResolver(ERR_INFACTIBLE, TRUE)
                 ELSE \E sol \in optimas :
                      /\ MismaRespuesta(<<g, flota, origen, destinos, rk,
                                          factor_relajacion>>, sol)
                      /\ ronda' = [pc |-> "for", pares |-> pares, sol |-> sol,
                                   costo_total |-> Objetivo(g, flota, incidentes,
                                                            rk, sol),
                                   k |-> 1, asignaciones |-> <<>>,
                                   rutas_optimas |-> <<>>]
                      /\ traza' = TrazaRun("", TRUE)
                      /\ UNCHANGED resultado

FallaRun(error) ==
    /\ traza' = Traza("run", error, FALSE)
    /\ UNCHANGED <<G, R_k, ronda, resultado>>

RunOptimization ==
    /\ ronda.pc = "idle"
    /\ IF G = None THEN FallaRun(ERR_SIN_RED)
       ELSE IF Len(ambulancias) = 0 THEN FallaRun(ERR_SIN_FLOTA)
       ELSE IF ~incidentes_generados \/ DESTINOS = None
            THEN FallaRun(ERR_SIN_INCIDENTES)
       ELSE \E prep \in (IF R_k = None
                         THEN asignar_capacidades_velocidades(
                                  G[1], C_MIN, C_MAX, R_MIN, R_MAX)
                         ELSE {[G |-> G[1], R_k |-> R_k[1]]}) :
              /\ G' = Some(prep.G)
              /\ R_k' = Some(prep.R_k)
              /\ Resolver(prep.G, ambulancias, ORIGEN[1], DESTINOS[1],
                          prep.R_k, FACTOR_RELAJACION)
    /\ UNCHANGED <<ambulancias, FACTOR_RELAJACION, ORIGEN, DESTINOS,
                   incidentes_generados, llamada, previa>>

AsignadosSinPrimero(r, k) ==
    {j \in (k + 1)..Len(r.pares) : y_val(DESTINOS[1], r.sol, r.pares[j]) = 1}

\* the pairs from position k on whose y is 1 (the test of the for loop)
Asignados(r, k) ==
    {j \in k..Len(r.pares) : y_val(DESTINOS[1], r.sol, r.pares[j]) = 1}

\* arcos_usados: the edges with x = 1 for the pair, in the order of arcos
arcos_usados_de(r, par) ==
    SelectSeq(G[1].arcos, LAMBDA a : a \in x_val(DESTINOS[1], r.sol, par))

ResultadoDe_truncado(r) ==
    [asignaciones |-> SubSeq(r.asignaciones, 1, Len(r.asignaciones) - 1),
     rutas |-> r.rutas_optimas,
     costo_total |-> [num |-> r.costo_total, den |-> 20 * Escala(R_k[1])],
     origen |-> ORIGEN[1], destinos |-> DESTINOS[1], R_k |-> R_k[1]]

\* the value of resolver_optimizacion when the for loop is over
ResultadoDe(r) ==
    [asignaciones |-> r.asignaciones, rutas |-> r.rutas_optimas,
     costo_total |-> [num |-> r.costo_total, den |-> 20 * Escala(R_k[1])],
     origen |-> ORIGEN[1], destinos |-> DESTINOS[1], R_k |-> R_k[1]]

ExtractNext ==
    /\ ronda.pc = "for"
    /\ IF Asignados(ronda, ronda.k) = {}
       THEN \* return resultado, None; the handler stores it
            /\ resultado' = Some(ResultadoDe(ronda))
            /\ traza' = [traza EXCEPT !.resultado = Some(ResultadoDe(ronda))]
            /\ previa' = Some([entrada |-> <<G[1], ambulancias, ORIGEN[1],
                                             DESTINOS[1], R_k[1],
                                             FACTOR_RELAJACION>>,
                               sol |-> ronda.sol])
            /\ ronda' = Reposo
       ELSE LET j == CHOOSE j \in Asignados(ronda, ronda.k) :
                        \A i \in Asignados(ronda, ronda.k) : j <= i
                usados == arcos_usados_de(ronda, ronda.pares[j])
            IN  /\ ronda' = [pc |-> "while", pares |-> ronda.pares,
                             sol |-> ronda.sol, costo_total |-> ronda.costo_total,
                             k |-> j, asignaciones |-> ronda.asignaciones,
                             rutas_optimas |-> ronda.rutas_optimas,
                             arcos_usados |-> usados,
                             distancia_total |-> DistanciaDe(G[1], Range(usados)),
                             ruta |-> <<ORIGEN[1]>>, nodo_actual |-> ORIGEN[1],
                             arcos_restantes |-> usados, vueltas |-> 0]
                /\ UNCHANGED <<resultado, traza, previa>>
    /\ UNCHANGED <<ambulancias, G, R_k, FACTOR_RELAJACION, ORIGEN, DESTINOS,
                   incidentes_generados, llamada>>

\* remove the element at position i
Quitar(s, i) == SubSeq(s, 1, i - 1) \o SubSeq(s, i + 1, Len(s))

PasoWhile_append_u(r) ==
    LET sale == {i \in DOMAIN r.arcos_restantes :
                    r.arcos_restantes[i][1] = r.nodo_actual}
    IN  IF sale = {} THEN r
        ELSE LET i == CHOOSE i \in sale : \A j \in sale : i <= j
                 v == r.arcos_restantes[i][2]
             IN  [r EXCEPT !.ruta = Append(r.ruta, r.nodo_actual), !.nodo_actual = v,
                           !.arcos_restantes = Quitar(r.arcos_restantes, i)]

\* one pass of the while loop (src/app.py 383-390): the for scan takes the
\* first remaining edge that leaves nodo_actual; when there is none the
\* pass changes nothing
PasoWhile(r) ==
    LET sale == {i \in DOMAIN r.arcos_restantes :
                    r.arcos_restantes[i][1] = r.nodo_actual}
    IN  IF sale = {} THEN r
        ELSE LET i == CHOOSE i \in sale : \A j \in sale : i <= j
                 v == r.arcos_restantes[i][2]
             IN  [r EXCEPT !.ruta = Append(r.ruta, v), !.nodo_actual = v,
                           !.arcos_restantes = Quitar(r.arcos_restantes, i)]

\* vueltas counts the passes of the while loop; the count stops at one more
\* than the number of edges of the network
ReconstructStep ==
    /\ ronda.pc = "while"
    /\ ronda.arcos_restantes # <<>>
    /\ ronda' = [PasoWhile(ronda) EXCEPT
                    !.vueltas = IF ronda.vueltas <= Len(G[1].arcos)
                                THEN ronda.vueltas + 1 ELSE ronda.vueltas]
    /\ UNCHANGED <<sesion, traza, llamada, previa>>

\* the record appended to asignaciones (src/app.py 392-402); tiempo_min is
\* T.varValue, kept as the fraction (T * vel) / vel
AsignacionDe(r) ==
    LET par == r.pares[r.k]
        ambulancia == AmbDe(ambulancias, par[1])
        tipo_emerg == TipoDe(DESTINOS[1], par[2])
    IN  [ambulancia_id |-> par[1], ambulancia_tipo |-> ambulancia.tipo,
         costo_operativo |-> ambulancia.costo_operativo,
         nodo_destino |-> par[2], tipo_emergencia |-> tipo_emerg,
         prioridad |-> prioridades(tipo_emerg),
         tiempo_min |-> [num |-> T_val(DESTINOS[1], r.sol, par),
                         den |-> Vel(R_k[1], tipo_emerg)],
         velocidad_req |-> Vel(R_k[1], tipo_emerg),
         distancia_hm |-> r.distancia_total]

\* rutas_optimas[amb_id] = {...}: a dict, the later entry replaces the
\* earlier one of the same key
RutaDe(r) ==
    [amb_id |-> r.pares[r.k][1], ruta |-> r.ruta, arcos |-> r.arcos_usados,
     destino |-> r.pares[r.k][2], distancia_hm |-> r.distancia_total]

EmitAssignment ==
    /\ ronda.pc = "while"
    /\ ronda.arcos_restantes = <<>>
    /\ ronda' = [pc |-> "for", pares |-> ronda.pares, sol |-> ronda.sol,
                 costo_total |-> ronda.costo_total, k |-> ronda.k + 1,
                 asignaciones |-> Append(ronda.asignaciones, AsignacionDe(ronda)),
                 rutas_optimas |->
                     Append(SelectSeq(ronda.rutas_optimas,
                                LAMBDA e : e.amb_id # ronda.pares[ronda.k][1]),
                            RutaDe(ronda))]
    /\ UNCHANGED <<sesion, traza, llamada, previa>>

\* ------------------------------------------------------------------------
\* The session
\* ------------------------------------------------------------------------
Next ==
    \/ \E id \in IdsNuevos, t \in Formulario : AddAmbulance(id, t[1], t[2], t[3])
    \/ \E id \in IdsQuitar(ambulancias) : RemoveAmbulance(id)
    \/ \E red \in RedesSesion : LoadNetwork(red)
    \/ \E n \in NumIncidentesSesion : GenerateIncidents(n)
    \/ RecalculateCapacities
    \/ RunOptimization
    \/ ExtractNext
    \/ ReconstructStep
    \/ EmitAssignment

Spec == Init /\ [][Next]_vars

\* ------------------------------------------------------------------------
\* One optimisation round from any session state in which it can run.
\* The fleets are what is left of the default fleet after removals (here
\* the sub-fleets of four of its vehicles: one Media, two Critica, one
\* Desconocido); the network is any of Redes with capacities and speeds assigned; ORIGEN and
\* DESTINOS are an outcome of generar_origen_destinos on it.
\* ------------------------------------------------------------------------
Plantilla == {"Amb_006", "Amb_008", "Amb_014", "Amb_015"}

FlotasRonda ==
    {SelectSeq(DefaultFleet, LAMBDA amb : amb.id \in ids) : ids \in SUBSET Plantilla}

InitRonda ==
    /\ ambulancias \in FlotasRonda
    /\ \E red \in Redes :
       \E prep \in asignar_capacidades_velocidades(
                       descargar_red(red), C_MIN, C_MAX, R_MIN, R_MAX) :
       \E n \in NumIncidentes :
       \E od \in generar_origen_destinos(prep.G, n) :
          /\ G = Some(prep.G)
          /\ R_k = Some(prep.R_k)
          /\ ORIGEN = Some(od.ORIGEN)
          /\ DESTINOS = Some(od.DESTINOS)
    /\ FACTOR_RELAJACION \in Factores
    /\ incidentes_generados = TRUE
    /\ resultado = None
    /\ ronda = Reposo
    /\ traza = SinTraza
    /\ llamada = None
    /\ previa = None

NextRonda ==
    \/ \E f \in Factores : SetFactor(f)
    \/ RunOptimization
    \/ ExtractNext
    \/ ReconstructStep
    \/ EmitAssignment

SpecRonda == InitRonda /\ [][NextRonda]_vars

\* ------------------------------------------------------------------------
\* Direct calls of the pure functions, on any vehicle the add form can
\* build and any severity string
\* ------------------------------------------------------------------------
PersonalMuestras == {1, 2, 5, 10, 15}
EquipamientoMuestras == {1, 3, 7, 14, 20}
InsumosMuestras == {1, 5, 10, 30}
TiposMuestras == {"Critica", "Media", "Leve", "Desconocido", "Otra"}

LlamarEsCompatible(personal, equipamiento, insumos, tipo_emergencia) ==
    /\ llamada' = Some([ambulancia |-> Ambulancia("Amb", personal, equipamiento, insumos),
                        tipo_emergencia |-> tipo_emergencia,
                        valor |-> es_compatible(
                            Ambulancia("Amb", personal, equipamiento, insumos),
                            tipo_emergencia)])
    /\ UNCHANGED <<sesion, ronda, traza, previa>>

NextLlamada ==
    \E p \in PersonalMuestras, e \in EquipamientoMuestras, i \in InsumosMuestras,
       t \in TiposMuestras : LlamarEsCompatible(p, e, i, t)

SpecLlamada == Init /\ [][NextLlamada]_vars

\* ------------------------------------------------------------------------
\* The constraints of resolver_optimizacion on the variables of one
\* compatible pair: any values (y, x, T) that satisfy Constraint 3,
\* Constraint 4, the Big-M constraint and the bounds of the variables, on a
\* prepared network with a generated base node and incident
\* ------------------------------------------------------------------------
SolucionDePar(red, y) ==
    /\ llamada = None
    /\ \E prep \in asignar_capacidades_velocidades(
                       descargar_red(red), C_MIN, C_MAX, R_MIN, R_MAX) :
       \E od \in generar_origen_destinos(prep.G, 1) :
       \E i \in DOMAIN od.DESTINOS :
       \E S \in SUBSET Range(prep.G.arcos) :
          /\ FlujoConservado(prep.G, od.ORIGEN, od.DESTINOS[i].nodo, S, y)
          /\ \E T \in TiemposDe(prep.G, S, Vel(prep.R_k, od.DESTINOS[i].tipo), y) :
                llamada' = Some([G |-> prep.G, ORIGEN |-> od.ORIGEN,
                                 nodo_dest |-> od.DESTINOS[i].nodo,
                                 vel |-> Vel(prep.R_k, od.DESTINOS[i].tipo),
                                 y |-> y, x |-> S, T |-> T])
    /\ UNCHANGED <<sesion, ronda, traza, previa>>

NextRestricciones ==
    \E red \in Redes, y \in {0, 1} : SolucionDePar(red, y)

SpecRestricciones == Init /\ [][NextRestricciones]_vars

\* ------------------------------------------------------------------------
\* Direct calls of asignar_capacidades_velocidades on argument ranges with
\* R_MIN <= R_MAX (the defaults, ranges of the sidebar, a narrow range and
\* the degenerate range R_MIN = R_MAX), with an independent draw for each
\* speed
\* ------------------------------------------------------------------------
RangosVelocidad ==
    {<<20, 50>>, <<10, 40>>, <<20, 20>>, <<50, 80>>, <<10, 100>>, <<47, 50>>,
     <<30, 60>>, <<50, 50>>}
RangosCapacidad == {<<50, 100>>, <<20, 150>>}

LlamarAsignar(r, c, uc, u_leve, u_media, u_critica) ==
    /\ llamada = None
    /\ llamada' = Some([R_MIN |-> r[1], R_MAX |-> r[2], C_MIN |-> c[1],
                        C_MAX |-> c[2],
                        valor |-> muestra(descargar_red(RedCadena), c[1], c[2],
                                          r[1], r[2], uc, u_leve, u_media,
                                          u_critica)])
    /\ UNCHANGED <<sesion, ronda, traza, previa>>

NextMuestreo ==
    \E r \in RangosVelocidad, c \in RangosCapacidad,
       uc \in Cuantiles, u_leve \in Cuantiles, u_media \in Cuantiles,
       u_critica \in Cuantiles :
        LlamarAsignar(r, c, uc, u_leve, u_media, u_critica)

SpecMuestreo == Init /\ [][NextMuestreo]_vars

\* ------------------------------------------------------------------------
\* Direct calls of generar_origen_destinos, on the networks above and on two
\* networks of four nodes, for requested counts below, at and above the
\* number of candidate nodes
\* ------------------------------------------------------------------------
\* a hub 1 joined both ways to 2, 3 and 4
RedEstrella ==
    [nodos |-> <<1, 2, 3, 4>>,
     arcos |-> << <<1, 2, 0>>, <<2, 1, 0>>, <<1, 3, 0>>, <<3, 1, 0>>,
                  <<1, 4, 0>>, <<4, 1, 0>> >>,
     length |-> (<<1, 2, 0>> :> 1 @@ <<2, 1, 0>> :> 1 @@ <<1, 3, 0>> :> 2
                 @@ <<3, 1, 0>> :> 2 @@ <<1, 4, 0>> :> 1 @@ <<4, 1, 0>> :> 1)]

\* node 4 hangs off node 3 by a one-way street: it can be reached from the
\* rest but lies outside the largest strongly connected component
RedCola ==
    [nodos |-> <<1, 2, 3, 4>>,
     arcos |-> << <<1, 2, 0>>, <<2, 1, 0>>, <<1, 3, 0>>, <<3, 1, 0>>,
                  <<3, 4, 0>> >>,
     length |-> (<<1, 2, 0>> :> 1 @@ <<2, 1, 0>> :> 1 @@ <<1, 3, 0>> :> 2
                 @@ <<3, 1, 0>> :> 2 @@ <<3, 4, 0>> :> 1)]

RedesGenerar == Redes \cup {RedEstrella, RedCola}
MaxSolicitados == 4

LlamarGenerar(red, num_incidentes) ==
    /\ llamada = None
    /\ \E out \in generar_origen_destinos(descargar_red(red), num_incidentes) :
          llamada' = Some([G |-> descargar_red(red),
                           num_incidentes |-> num_incidentes,
                           ORIGEN |-> out.ORIGEN,
                           DESTINOS |-> out.DESTINOS])
    /\ UNCHANGED <<sesion, ronda, traza, previa>>

NextGenerar ==
    \E red \in RedesGenerar, num_incidentes \in 1..MaxSolicitados :
        LlamarGenerar(red, num_incidentes)

SpecGenerar == Init /\ [][NextGenerar]_vars

\* ------------------------------------------------------------------------
\* Fleet management alone, from the default fleet: the form is submitted
\* with ids of the default fleet and with new ones, with the form's default
\* values or with others, and the selectbox removes any of a few vehicles,
\* in any order
\* ------------------------------------------------------------------------
IdsFlota == {"Amb_001", "Amb_008", "Amb_016"}
FormularioFlota == {<<2, 4, 3>>, <<5, 8, 15>>}

NextFlota ==
    \/ \E new_id \in IdsFlota, f \in FormularioFlota :
          AddAmbulance(new_id, f[1], f[2], f[3])
    \/ \E amb_to_remove \in IdsFlota : RemoveAmbulance(amb_to_remove)

SpecFlota == Init /\ [][NextFlota]_vars

\* ------------------------------------------------------------------------
\* A session that has come down to a fleet of four vehicles, with the
\* network loaded and incidents generated: the fleet handlers, Generate
\* Incidents and Run Optimization in any order.  The selectbox removes any
\* vehicle of the fleet.
\* ------------------------------------------------------------------------
IdsResultado == {"Amb_016"}

InitResultado ==
    /\ InitRonda
    /\ Len(ambulancias) = Cardinality(Plantilla)
    /\ \E prep \in {muestra(descargar_red(RedLazoCero), C_MIN, C_MAX, R_MIN,
                              R_MAX, 0, 0, 0, 0)} :
          /\ G = Some(prep.G)
          /\ R_k = Some(prep.R_k)
    /\ FACTOR_RELAJACION = 10

NextResultado ==
    \/ \E id \in IdsResultado, t \in Formulario :
          AddAmbulance(id, t[1], t[2], t[3])
    \/ \E i \in DOMAIN ambulancias : RemoveAmbulance(ambulancias[i].id)
    \/ \E n \in NumIncidentesSesion : GenerateIncidents(n)
    \/ RunOptimization
    \/ ExtractNext
    \/ ReconstructStep
    \/ EmitAssignment

SpecResultado == InitResultado /\ [][NextResultado]_vars

\* ------------------------------------------------------------------------
\* Properties of a round (SpecRonda), of the session (Spec) and of the
\* pure functions (SpecLlamada)
\* ------------------------------------------------------------------------

\* C1: a successful result of resolver_optimizacion holds exactly as many
\* assignments as there are incidents, and every incident node is the
\* nodo_destino of exactly one assignment.
C1_Cobertura ==
    resultado # None =>
        LET res == resultado[1]
        IN  /\ Len(res.asignaciones) = Len(res.destinos)
            /\ \A i \in DOMAIN res.destinos :
                   Cardinality({j \in DOMAIN res.asignaciones :
                       res.asignaciones[j].nodo_destino = res.destinos[i].nodo}) = 1

\* a round with two incidents has returned its result
C1_Testigo ==
    /\ resultado # None
    /\ Len(resultado[1].destinos) = 2
    /\ Len(resultado[1].asignaciones) = 2

\* C2: every assignment of a result pairs a vehicle and an incident with
\* rank(vehicle class) >= rank(incident severity), the class recorded is
\* the class of the fleet's vehicle, and no vehicle of class Desconocido is
\* assigned.
C2_Compatibilidad ==
    resultado # None =>
        \A j \in DOMAIN resultado[1].asignaciones :
            LET a == resultado[1].asignaciones[j]
            IN  /\ a.ambulancia_tipo = AmbDe(ambulancias, a.ambulancia_id).tipo
                /\ a.tipo_emergencia = TipoDe(resultado[1].destinos, a.nodo_destino)
                /\ niveles_ambulancia(a.ambulancia_tipo)
                       >= niveles_emergencia(a.tipo_emergencia)
                /\ a.ambulancia_tipo # "Desconocido"

\* a result of a round whose fleet holds a vehicle of class Desconocido and
\* a vehicle of class Media, with a Critica and a Media incident served
C2_Testigo ==
    /\ resultado # None
    /\ Len(resultado[1].asignaciones) = 2
    /\ \E i \in DOMAIN ambulancias : ambulancias[i].tipo = "Desconocido"
    /\ \E i \in DOMAIN ambulancias : ambulancias[i].tipo = "Media"

\* C3: in a successful result no vehicle id appears in more than one
\* assignment.
C3_Exclusividad ==
    resultado # None =>
        \A i, j \in DOMAIN resultado[1].asignaciones :
            resultado[1].asignaciones[i].ambulancia_id
                = resultado[1].asignaciones[j].ambulancia_id => i = j

\* two incidents, both served by vehicles of class Critica: the cheaper of
\* the two vehicles is compatible with both incidents and serves one
C3_Testigo ==
    /\ resultado # None
    /\ \E i, j \in DOMAIN resultado[1].asignaciones :
          /\ i # j
          /\ resultado[1].asignaciones[i].ambulancia_tipo = "Critica"
          /\ resultado[1].asignaciones[j].ambulancia_tipo = "Critica"

\* C4: for every assignment of a successful result the reconstructed route
\* starts at ORIGEN, ends at the incident's node and has one step per
\* selected edge: every selected edge is walked as often as it was selected.
C4_Ruta ==
    resultado # None =>
        \A j \in DOMAIN resultado[1].asignaciones :
            LET a == resultado[1].asignaciones[j]
            IN  \E e \in Range(resultado[1].rutas) :
                    /\ e.amb_id = a.ambulancia_id
                    /\ e.destino = a.nodo_destino
                    /\ e.ruta[1] = resultado[1].origen
                    /\ e.ruta[Len(e.ruta)] = a.nodo_destino
                    /\ Len(e.ruta) - 1 = Len(e.arcos)
                    /\ Len(e.arcos) = Cardinality(Range(e.arcos))
                    /\ \A b \in Range(e.arcos) :
                           Cardinality({k \in 1..(Len(e.ruta) - 1) :
                               e.ruta[k] = b[1] /\ e.ruta[k + 1] = b[2]})
                         = Cardinality({c \in Range(e.arcos) :
                               c[1] = b[1] /\ c[2] = b[2]})

\* a result with a route of two or more edges
C4_Testigo ==
    /\ resultado # None
    /\ \E e \in Range(resultado[1].rutas) : Len(e.arcos) >= 2

\* C5: path reconstruction takes at most as many passes of its loop as the
\* pair has selected edges.
C5_PasosAcotados ==
    ronda.pc = "while" => ronda.vueltas <= Len(ronda.arcos_usados)

\* C6: when no remaining selected edge leaves the last node of the path
\* the round has failed with an error.
C6_ErrorDeReconstruccion ==
    (/\ ronda.pc = "while"
     /\ ronda.arcos_restantes # <<>>
     /\ \A i \in DOMAIN ronda.arcos_restantes :
            ronda.arcos_restantes[i][1] # ronda.nodo_actual)
        => traza.error # ""

\* C7: when resolver_optimizacion is called (the fleet is not empty) and
\* no (vehicle, incident) pair is compatible, it returns the error and no
\* result, and the solver has not run.
C7_SinParesAntesDelSolver ==
    (/\ traza.handler = "run"
     /\ Len(ambulancias) > 0
     /\ pares_amb_inc_de(ambulancias, incidentes_de(DESTINOS[1], R_k[1])) = <<>>)
        => /\ traza.error = ERR_SIN_PARES
           /\ ~traza.solver
           /\ traza.resultado = None
           /\ resultado = None
           /\ ronda = Reposo

\* a round has run on a fleet with vehicles and incidents, none compatible
C7_Testigo ==
    /\ traza.handler = "run"
    /\ traza.error = ERR_SIN_PARES
    /\ Len(ambulancias) > 0
    /\ Len(DESTINOS[1]) > 0

\* C8: a round that has returned gave either a result with one assignment
\* per incident and no error, or an error and no result; a round returns
\* an error whenever some incident has no compatible vehicle, and nothing
\* is returned while the extraction is under way.
C8_TodoONada ==
    /\ (traza.handler = "run" /\ ronda.pc = "idle") =>
          /\ \/ /\ traza.error = ""
                /\ traza.resultado # None
                /\ Len(traza.resultado[1].asignaciones) = Len(DESTINOS[1])
                /\ resultado = traza.resultado
             \/ /\ traza.error # ""
                /\ traza.resultado = None
          /\ (\E i \in DOMAIN DESTINOS[1] : \A j \in DOMAIN ambulancias :
                 niveles_ambulancia(ambulancias[j].tipo)
                     < niveles_emergencia(DESTINOS[1][i].tipo))
                => traza.error # ""
    /\ ronda.pc # "idle" => traza.resultado = None

\* the solver has reported a status other than Optimal on a round in which
\* one incident has a compatible vehicle and the other has none
C8_Testigo ==
    /\ traza.handler = "run"
    /\ traza.solver
    /\ traza.error = ERR_INFACTIBLE
    /\ \E i \in DOMAIN DESTINOS[1] : \A j \in DOMAIN ambulancias :
           niveles_ambulancia(ambulancias[j].tipo)
               < niveles_emergencia(DESTINOS[1][i].tipo)
    /\ \E i \in DOMAIN DESTINOS[1] : \E j \in DOMAIN ambulancias :
           niveles_ambulancia(ambulancias[j].tipo)
               >= niveles_emergencia(DESTINOS[1][i].tipo)

\* C9: every vehicle of the fleet has cost 10 * staff + 5 * equipment
\* + 3 * supplies and the class of its cost: Critica from 200, Media from
\* 100, Leve from 50, Desconocido below 50.
C9_CostoYClase ==
    \A i \in DOMAIN ambulancias :
        LET a == ambulancias[i]
            c == 10 * a.personal + 5 * a.equipamiento + 3 * a.insumos
        IN  /\ a.costo_operativo = c
            /\ a.tipo = "Critica" <=> c >= 200
            /\ a.tipo = "Media" <=> (100 <= c /\ c < 200)
            /\ a.tipo = "Leve" <=> (50 <= c /\ c < 100)
            /\ a.tipo = "Desconocido" <=> c < 50

\* the fleet after an addition and a removal
C9_Testigo ==
    /\ \E i \in DOMAIN ambulancias : ambulancias[i].id = "Amb_016"
    /\ \A i \in DOMAIN ambulancias : ambulancias[i].id # "Amb_008"

\* C10: es_compatible is true exactly when the vehicle's class has a rank
\* (Leve 1, Media 2, Critica 3) and that rank is at least the rank of the
\* severity, any other severity having rank 0.
C10_Compatible ==
    llamada # None =>
        LET rango_amb == niveles_ambulancia(llamada[1].ambulancia.tipo)
            rango_emerg == niveles_emergencia(llamada[1].tipo_emergencia)
        IN  llamada[1].valor <=> (rango_amb >= rango_emerg /\ rango_amb > 0)

\* C11: once a round has succeeded, a round on the same instance with the
\* relaxation factor at 2.0 is feasible too, and its optimal objective
\* value is at most the stored one (the stored result was computed with
\* factor 1.0 or 2.0; nothing else of the instance changes in SpecRonda).
C11_FactorMonotono ==
    (resultado # None /\ FACTOR_RELAJACION = 20 /\ traza.handler = "run") =>
        /\ traza.error = ""
        /\ ronda.pc = "for" =>
               /\ 20 * Escala(R_k[1]) = resultado[1].costo_total.den
               /\ ronda.costo_total <= resultado[1].costo_total.num

\* a round with factor 2.0 has found a strictly cheaper optimum than the
\* stored result, which was computed with factor 1.0
C11_Testigo ==
    /\ resultado # None
    /\ FACTOR_RELAJACION = 20
    /\ traza.handler = "run"
    /\ ronda.pc = "for"
    /\ ronda.costo_total < resultado[1].costo_total.num

C13_MuestreoPorRonda ==
    (/\ traza.handler = "run"
     /\ traza.error \notin {ERR_SIN_RED, ERR_SIN_FLOTA, ERR_SIN_INCIDENTES})
        => traza.muestreo

\* C14: for every assignment of a successful result, tiempo_min equals
\* distancia_km / velocidad_req * 60, the distance being the total length
\* of the pair's selected edges and the speed the required speed of the
\* incident's severity (6 * hectometres / speed in the model's units).
C14_TiempoRealizado ==
    resultado # None =>
        \A j \in DOMAIN resultado[1].asignaciones :
            LET a == resultado[1].asignaciones[j]
            IN  /\ a.velocidad_req = Vel(resultado[1].R_k, a.tipo_emergencia)
                /\ a.tiempo_min.den = a.velocidad_req
                /\ a.tiempo_min.num = 6 * a.distancia_hm
                /\ \E e \in Range(resultado[1].rutas) :
                       /\ e.amb_id = a.ambulancia_id
                       /\ a.distancia_hm
                              = SumOver(Range(e.arcos), G[1].Distancia)

\* a result with an assignment that travels a positive distance
C14_Testigo ==
    /\ resultado # None
    /\ \E j \in DOMAIN resultado[1].asignaciones :
           resultado[1].asignaciones[j].distancia_hm > 0

\* C15: in every solution of the constraints a pair with y = 0 has T = 0
\* and, when every edge of the network has a positive length, uses no
\* edge; T is at most M times y (T is kept as T * vel).
C15_BigM ==
    llamada # None =>
        LET p == llamada[1]
        IN  /\ p.T <= M * p.vel * p.y
            /\ p.y = 0 =>
                   /\ p.T = 0
                   /\ (\A a \in Range(p.G.arcos) : p.G.Distancia[a] > 0)
                          => p.x = {}

\* an unassigned pair on a network whose edges all have positive length
C15_Testigo ==
    /\ llamada # None
    /\ llamada[1].y = 0
    /\ \A a \in Range(llamada[1].G.arcos) : llamada[1].G.Distancia[a] > 0

\* C16: in every successful result, on each edge of the network the
\* required speeds of the assignments whose route uses the edge add up to
\* at most the edge's capacity times the relaxation factor of the call
\* (factor in tenths).
C16_Capacidad ==
    resultado # None =>
        LET res == resultado[1]
            g == previa[1].entrada[1]
            factor_relajacion == previa[1].entrada[6]
        IN  \A a \in Range(g.arcos) :
                10 * SumOver({j \in DOMAIN res.asignaciones :
                                 \E e \in Range(res.rutas) :
                                     /\ e.amb_id = res.asignaciones[j].ambulancia_id
                                     /\ a \in Range(e.arcos)},
                             [j \in DOMAIN res.asignaciones |->
                                 res.asignaciones[j].velocidad_req])
                    <= g.Capacidad_C[a] * factor_relajacion

\* a result in which two routes share an edge
C16_Testigo ==
    /\ resultado # None
    /\ \E e, f \in Range(resultado[1].rutas) :
          /\ e.amb_id # f.amb_id
          /\ Range(e.arcos) \cap Range(f.arcos) # {}

\* C17: the speeds returned by asignar_capacidades_velocidades satisfy
\* R_min <= Leve <= R_min + (R_max - R_min) / 3 <= Media
\*       <= R_min + 2 (R_max - R_min) / 3 <= Critica <= R_max
\* (every term times 3 below), hence Leve <= Media <= Critica.
C17_VelocidadesOrdenadas ==
    llamada # None =>
        LET r_min == llamada[1].R_MIN
            r_max == llamada[1].R_MAX
            r == llamada[1].valor.R_k
        IN  /\ 3 * r_min <= 3 * r.Leve
            /\ 3 * r.Leve <= 3 * r_min + (r_max - r_min)
            /\ 3 * r_min + (r_max - r_min) <= 3 * r.Media
            /\ 3 * r.Media <= 3 * r_min + 2 * (r_max - r_min)
            /\ 3 * r_min + 2 * (r_max - r_min) <= 3 * r.Critica
            /\ 3 * r.Critica <= 3 * r_max
            /\ r.Leve <= r.Media
            /\ r.Media <= r.Critica

\* a call whose Leve speed is drawn at the top of its third and whose Media
\* speed at the bottom of its own, on a range of positive width
C17_Testigo ==
    /\ llamada # None
    /\ llamada[1].R_MIN < llamada[1].R_MAX
    /\ llamada[1].valor.R_k.Leve = llamada[1].valor.R_k.Media
    /\ llamada[1].valor.R_k.Media < llamada[1].valor.R_k.Critica

\* C18: generar_origen_destinos returns a base node and a mapping from
\* nodes to severities whose keys are pairwise distinct, reachable from the
\* base node and different from it, and whose size is the minimum of the
\* requested count and the number of candidate nodes: every incident sits
\* on one node and no node carries two incidents.  The candidate nodes are
\* the nodes other than the base node that the base node reaches and that
\* reach it back (its strongly connected component, which the code takes
\* as the largest one).
C18_DestinosBienFormados ==
    llamada # None =>
        LET d == llamada[1].DESTINOS
            o == llamada[1].ORIGEN
            cand == {n \in Range(llamada[1].G.nodos) :
                        /\ n # o
                        /\ n \in ReachFrom(llamada[1].G, {o})
                        /\ o \in ReachFrom(llamada[1].G, {n})}
        IN  /\ o \in Range(llamada[1].G.nodos)
            /\ \A i \in DOMAIN d :
                 /\ d[i].nodo \in ReachFrom(llamada[1].G, {o})
                 /\ d[i].nodo # o
                 /\ d[i].tipo \in Range(FLUJOS)
            /\ \A i \in DOMAIN d : \A j \in DOMAIN d :
                 d[i].nodo = d[j].nodo => i = j
            /\ Len(d) = IF llamada[1].num_incidentes < Cardinality(cand)
                        THEN llamada[1].num_incidentes
                        ELSE Cardinality(cand)

\* a call asking for four incidents on a network with three candidate
\* nodes, which returns three incidents on three nodes
C18_Testigo ==
    /\ llamada # None
    /\ llamada[1].num_incidentes = 4
    /\ Len(llamada[1].DESTINOS) = 3
    /\ Cardinality({llamada[1].DESTINOS[i].nodo :
                       i \in DOMAIN llamada[1].DESTINOS}) = 3

\* C19: after any sequence of Add Ambulance and Remove Ambulance from the
\* default fleet the ids of the fleet are pairwise distinct; an Add whose
\* id is already in the fleet reports the error and leaves the fleet as it
\* was, and an Add that is accepted appends one vehicle whose id was not in
\* the fleet.
C19_IdsDistintos ==
    /\ [](\A i \in DOMAIN ambulancias : \A j \in DOMAIN ambulancias :
            ambulancias[i].id = ambulancias[j].id => i = j)
    /\ [][traza'.handler = "add" =>
            IF traza'.error = ERR_ID_EXISTE
            THEN ambulancias' = ambulancias
            ELSE /\ traza'.error = ""
                 /\ Len(ambulancias') = Len(ambulancias) + 1
                 /\ SubSeq(ambulancias', 1, Len(ambulancias)) = ambulancias
                 /\ \A i \in DOMAIN ambulancias :
                      ambulancias[i].id # ambulancias'[Len(ambulancias')].id]_vars

\* an Add was just rejected in a fleet from which Amb_008 had been removed
\* and to which it was added again (it is now the last vehicle)
C19_Testigo ==
    /\ traza.handler = "add"
    /\ traza.error = ERR_ID_EXISTE
    /\ Len(ambulancias) > 0
    /\ ambulancias[Len(ambulancias)].id = "Amb_008"

\* C20: a round that fails (resolver_optimizacion returns an error, or the
\* run is refused because the network, the fleet or the incidents are
\* missing) leaves the stored result as it was; the stored result changes
\* only when a round returns without error, to the result of that round.
C20_ResultadoSoloPorExito ==
    [][/\ (traza'.handler = "run" /\ traza'.error # "") =>
              resultado' = resultado
       /\ resultado' # resultado =>
              /\ ronda.pc = "for"
              /\ ronda'.pc = "idle"
              /\ traza'.handler = "run"
              /\ traza'.error = ""
              /\ resultado' = Some(ResultadoDe(ronda))]_vars

\* a round has just failed in a session that holds the result of an
\* earlier round
C20_Testigo ==
    /\ resultado # None
    /\ traza.handler = "run"
    /\ traza.error # ""
    /\ ronda.pc = "idle"

\* C21: every vehicle id of the stored result is the id of a vehicle of the
\* current fleet, so the Available figure of the results tab (the size of
\* the fleet minus the number of assignments) is not negative.
C21_ResultadoEnFlota ==
    resultado # None =>
        /\ \A i \in DOMAIN resultado[1].asignaciones :
             \E j \in DOMAIN ambulancias :
                ambulancias[j].id = resultado[1].asignaciones[i].ambulancia_id
        /\ Len(ambulancias) - Len(resultado[1].asignaciones) >= 0

====
